---- MODULE Spec2Model ----
(***************************************************************************)
(* ExtractiveReader (haystack/preview/components/reader/extractive.py):    *)
(* warm_up, and run = _flatten, _preprocess, the sub-batch scoring loop,   *)
(* _postprocess (masking, _softmax_across_documents, topk) and _unflatten. *)
(*                                                                         *)
(* Python lists and tensors are sequences; an index the source computes    *)
(* (seq_id, i, last_docs entries, a flattened cell index) keeps its        *)
(* 0-based value and is used as  s[index + 1].                             *)
(* Optional values: None is <<>>, a value v is <<v>>.                      *)
(* Floats are extended rationals [k, n, d]: k = "fin" is n/d (d > 0),      *)
(* "pinf", "ninf" are the infinities and "nan" is NaN, with the IEEE rules *)
(* for +, -, /, < and ==; rounding is not modelled.  exp(x) is 2^x.        *)
(***************************************************************************)
EXTENDS Integers, Sequences, FiniteSets, TLC

\* ------------------------------------------------------------ optionals
None == <<>>

Some(v) == <<v>>

IsNone(o) == o = <<>>

\* Python truthiness of an Optional[int]: None and 0 are falsy.
Truthy(o) == o # <<>> /\ o[1] # 0

\* Python "a or b".
Or(a, b) == IF Truthy(a) THEN a ELSE b

\* ------------------------------------------------------------ floats
Frac(n, d) == [k |-> "fin", n |-> n, d |-> d]

Fin(n) == Frac(n, 1)

NegInf == [k |-> "ninf", n |-> 0, d |-> 1]

PosInf == [k |-> "pinf", n |-> 0, d |-> 1]

NaN == [k |-> "nan", n |-> 0, d |-> 1]

IsNaN(x) == x.k = "nan"

XNeg(a) ==
  CASE a.k = "fin" -> Frac(0 - a.n, a.d)
    [] a.k = "pinf" -> NegInf
    [] a.k = "ninf" -> PosInf
    [] OTHER -> NaN

XAdd(a, b) ==
  IF a.k = "nan" \/ b.k = "nan" THEN NaN
  ELSE IF a.k = "pinf" THEN (IF b.k = "ninf" THEN NaN ELSE PosInf)
  ELSE IF a.k = "ninf" THEN (IF b.k = "pinf" THEN NaN ELSE NegInf)
  ELSE IF b.k # "fin" THEN b
  ELSE IF a.d = b.d THEN Frac(a.n + b.n, a.d)
  ELSE Frac(a.n * b.d + b.n * a.d, a.d * b.d)

XSub(a, b) == XAdd(a, XNeg(b))

\* IEEE a < b: false as soon as one side is NaN.
XLt(a, b) ==
  /\ a.k # "nan" /\ b.k # "nan"
  /\ \/ a.k = "ninf" /\ b.k # "ninf"
     \/ b.k = "pinf" /\ a.k # "pinf"
     \/ a.k = "fin" /\ b.k = "fin" /\ a.n * b.d < b.n * a.d

\* IEEE a == b.
XEq(a, b) ==
  /\ a.k # "nan" /\ b.k # "nan"
  /\ \/ a.k = b.k /\ a.k # "fin"
     \/ a.k = "fin" /\ b.k = "fin" /\ a.n * b.d = b.n * a.d

XGe(a, b) == XLt(b, a) \/ XEq(a, b)

Sign(n) == IF n > 0 THEN 1 ELSE IF n < 0 THEN 0 - 1 ELSE 0

XSign(a) ==
  CASE a.k = "fin" -> Sign(a.n)
    [] a.k = "pinf" -> 1
    [] a.k = "ninf" -> 0 - 1
    [] OTHER -> 0

\* IEEE a / b.
XDiv(a, b) ==
  IF a.k = "nan" \/ b.k = "nan" THEN NaN
  ELSE IF a.k # "fin" /\ b.k # "fin" THEN NaN
  ELSE IF a.k # "fin"
    THEN (IF XSign(a) * (IF b.n < 0 THEN 0 - 1 ELSE 1) > 0 THEN PosInf ELSE NegInf)
  ELSE IF b.k # "fin" THEN Fin(0)
  ELSE IF b.n = 0
    THEN (IF a.n = 0 THEN NaN ELSE IF a.n > 0 THEN PosInf ELSE NegInf)
  ELSE IF b.n > 0 THEN Frac(a.n * b.d, a.d * b.n)
  ELSE Frac(0 - a.n * b.d, 0 - a.d * b.n)

RECURSIVE Pow2(_)
Pow2(n) == IF n <= 0 THEN 1 ELSE 2 * Pow2(n - 1)

\* torch.exp, with base 2 in place of e, on integer logits.
XExp(a) ==
  CASE a.k = "nan" -> NaN
    [] a.k = "ninf" -> Fin(0)
    [] a.k = "pinf" -> PosInf
    [] OTHER -> IF a.n >= 0 THEN Fin(Pow2(a.n)) ELSE Frac(1, Pow2(0 - a.n))

\* ------------------------------------------------------------ tensor helpers
\* A tensor or list is a stored sequence of values: every element is computed
\* once, when the tensor is built.
Tensor(t) == <<>> \o t

RECURSIVE CumSum(_)
\* torch.cumsum over a 1-d tensor.
CumSum(t) ==
  IF Len(t) <= 1 THEN t
  ELSE LET h == CumSum(SubSeq(t, 1, Len(t) - 1))
       IN Append(h, XAdd(h[Len(h)], t[Len(t)]))

\* torch.flip of a 1-d tensor.
Flip(t) == Tensor([p \in 1..Len(t) |-> t[Len(t) + 1 - p]])

\* t[idx] with idx a list of 0-based indices.
IndexGet(t, idx) == Tensor([j \in 1..Len(idx) |-> t[idx[j] + 1]])

Max(S) == CHOOSE x \in S : \A y \in S : y <= x

Min(S) == CHOOSE x \in S : \A y \in S : x <= y

\* t[idx] = vals.  Where idx repeats an index torch leaves open which write
\* lands: win = "last" keeps the last one, win = "first" the first one.
IndexPut(t, idx, vals, win) ==
  Tensor([p \in 1..Len(t) |->
            LET J == {j \in 1..Len(idx) : idx[j] + 1 = p}
            IN IF J = {} THEN t[p]
               ELSE vals[IF win = "last" THEN Max(J) ELSE Min(J)]])

\* t[idx] = v.
IndexFill(t, idx, v) ==
  Tensor([p \in 1..Len(t) |-> IF \E j \in 1..Len(idx) : idx[j] + 1 = p THEN v ELSE t[p]])

\* Python s[1:] and s[:-1].
Rest(s) == IF Len(s) = 0 THEN s ELSE SubSeq(s, 2, Len(s))

Front(s) == IF Len(s) = 0 THEN s ELSE SubSeq(s, 1, Len(s) - 1)

\* Python s[:n] for n >= 0.
Take(s, n) == SubSeq(s, 1, IF n < Len(s) THEN n ELSE Len(s))

RECURSIVE SumSeq(_)
\* torch.sum over a 1-d tensor.
SumSeq(t) == IF Len(t) = 0 THEN Fin(0) ELSE XAdd(SumSeq(Front(t)), t[Len(t)])

\* ------------------------------------------------------------ _softmax_across_documents
RECURSIVE ScanQuery(_, _, _, _)
\* The inner while of one query_id: advances seq_id over the windows whose
\* query_ids entry is query_id, appending seq_id - 1 to not_last_docs for every
\* window visited except window 0.
ScanQuery(query_ids, query_id, seq_id, not_last_docs) ==
  IF seq_id < Len(query_ids) /\ query_ids[seq_id + 1] = query_id
  THEN ScanQuery(query_ids, query_id, seq_id + 1,
                 IF seq_id # 0 THEN Append(not_last_docs, seq_id - 1) ELSE not_last_docs)
  ELSE [seq_id |-> seq_id, not_last_docs |-> not_last_docs]

RECURSIVE ScanQueries(_, _, _, _, _)
\* for query_id in range(query_ids[0], query_ids[-1] + 1).
ScanQueries(query_ids, query_id, seq_id, last_docs, not_last_docs) ==
  IF query_id > query_ids[Len(query_ids)]
  THEN [last_docs |-> last_docs, not_last_docs |-> not_last_docs]
  ELSE LET r == ScanQuery(query_ids, query_id, seq_id, not_last_docs)
       IN ScanQueries(query_ids, query_id + 1, r.seq_id,
                      Append(last_docs, r.seq_id - 1), r.not_last_docs)

\* last_docs and not_last_docs as lines 104-112 build them.
DocBoundaries(query_ids) == ScanQueries(query_ids, query_ids[1], 0, <<>>, <<>>)

\* a - b, elementwise.
SubEach(a, b) == Tensor([j \in 1..Len(a) |-> XSub(a[j], b[j])])

\* Lines 116-120: the no-answer logits, cumulated over the windows, written back
\* into cell [0, 0] of every window.
NoAnswerLogits(logits, query_ids, win) ==
  LET b == DocBoundaries(query_ids)
      no_answer_logits == Tensor([w \in 1..Len(logits) |-> logits[w][1]])
      sum1 == CumSum(no_answer_logits)
      sum2 == IndexPut(sum1, Rest(b.last_docs),
                       SubEach(IndexGet(sum1, Rest(b.last_docs)),
                               IndexGet(sum1, Front(b.last_docs))), win)
  IN IndexFill(sum2, b.not_last_docs, NegInf)

\* A normalising constant that is the sum of the window's own cells only.
ExpSumPerWindow(exp_logits, query_ids, win) ==
  Tensor([w \in 1..Len(exp_logits) |-> SumSeq(exp_logits[w])])

\* Lines 127-149: the normalising constant of every window.
ExpSumPerQuery(exp_logits, query_ids, win) ==
  LET b == DocBoundaries(query_ids)
      W == Len(exp_logits)
      sum0 == Tensor([w \in 1..W |-> SumSeq(exp_logits[w])])
      sum1 == CumSum(sum0)
      sum2 == IndexFill(sum1, b.not_last_docs, Fin(0))
      sum3 == IndexPut(sum2, Rest(b.last_docs),
                       SubEach(IndexGet(sum2, Rest(b.last_docs)),
                               IndexGet(sum2, Front(b.last_docs))), win)
      rev_cumsum == CumSum(Flip(sum3))
      sum4 == IndexPut(sum3, Front(b.last_docs), IndexGet(sum3, Rest(b.last_docs)), win)
      sum5 == [sum4 EXCEPT ![W] = Fin(0)]
      rev_sum_shifted == CumSum(Flip(sum5))
  IN Flip(SubEach(rev_cumsum, rev_sum_shifted))

\* exp of the logits after the no-answer step (line 122).
ExpLogits(logits, query_ids, win) ==
  LET na == NoAnswerLogits(logits, query_ids, win)
  IN Tensor([w \in 1..Len(logits) |->
        Tensor([f \in 1..Len(logits[w]) |->
                  XExp(IF f = 1 THEN na[w] ELSE logits[w][f])])])

\* _softmax_across_documents: a grid is the flattened (start, end) array of a window.
SoftmaxAcrossDocuments(logits, query_ids, win) ==
  LET exp_logits == ExpLogits(logits, query_ids, win)
      exp_sum_per_query == ExpSumPerQuery(exp_logits, query_ids, win)
  IN Tensor([w \in 1..Len(logits) |->
        Tensor([f \in 1..Len(logits[w]) |->
                  XDiv(exp_logits[w][f], exp_sum_per_query[w])])])

\* ------------------------------------------------------------ sorted(..., reverse=True)
\* CPython's list.sort on fewer than 64 items: the list is reversed, its leading
\* run is found (count_run) and the rest is inserted by binary insertion
\* (binarysort), comparing keys with < only; the result is reversed again.
\* A list is held as the sequence a of positions into keys.
KeyLt(keys, i, j) == XLt(keys[i], keys[j])

Reverse(a) == Tensor([p \in 1..Len(a) |-> a[Len(a) + 1 - p]])

RECURSIVE RunEnd(_, _, _, _)
RunEnd(a, keys, p, descending) ==
  IF p > Len(a) THEN p - 1
  ELSE IF KeyLt(keys, a[p], a[p - 1]) = descending THEN RunEnd(a, keys, p + 1, descending)
  ELSE p - 1

\* count_run: the length of the leading run, and a with that run made ascending.
CountRun(a, keys) ==
  IF Len(a) <= 1 THEN [n |-> Len(a), a |-> a]
  ELSE LET descending == KeyLt(keys, a[2], a[1])
           n == RunEnd(a, keys, 3, descending)
       IN [n |-> n,
           a |-> IF descending
                 THEN Reverse(SubSeq(a, 1, n)) \o SubSeq(a, n + 1, Len(a))
                 ELSE a]

RECURSIVE BinarySearch(_, _, _, _, _)
BinarySearch(a, keys, pivot, l, r) ==
  IF l >= r THEN l
  ELSE LET p == l + ((r - l) \div 2)
       IN IF KeyLt(keys, pivot, a[p])
          THEN BinarySearch(a, keys, pivot, l, p)
          ELSE BinarySearch(a, keys, pivot, p + 1, r)

RECURSIVE BinarySort(_, _, _)
\* binarysort: a[1..start-1] is sorted; insert a[start], a[start+1], ...
BinarySort(a, keys, start) ==
  IF start > Len(a) THEN a
  ELSE LET pivot == a[start]
           l == BinarySearch(a, keys, pivot, 1, start)
       IN BinarySort(SubSeq(a, 1, l - 1) \o <<pivot>> \o SubSeq(a, l, start - 1)
                       \o SubSeq(a, start + 1, Len(a)),
                     keys, start + 1)

\* The positions of keys in the order sorted(..., reverse=True) returns them.
SortedReverse(keys) ==
  LET a0 == Reverse(Tensor([p \in 1..Len(keys) |-> p]))
      run == CountRun(a0, keys)
  IN Reverse(BinarySort(run.a, keys, run.n + 1))

\* ------------------------------------------------------------ external collaborators
\* The documents of the runs.  A Document is its content, a string held as the
\* sequence of its characters.
DocLib == {<<"a", "b", "c">>, <<>>}

\* The tokenizer's encodings of one (query, document) pair: one window per overflow
\* chunk, each of four tokens [CLS, query, document or separator, document or pad],
\* with the role of every token (None, 0 = query, 1 = document), the attention
\* mask, the token ids and token_to_chars (None for a special token).
Encode(content) ==
  IF content = <<>>
  THEN << [input_ids |-> <<0, 1, 2, 0>>,
           attention_mask |-> <<1, 1, 1, 0>>,
           sequence_ids |-> <<None, Some(0), None, None>>,
           token_to_chars |-> <<None, Some(<<0, 1>>), None, None>>] >>
  ELSE << [input_ids |-> <<0, 0, 1, 2>>,
           attention_mask |-> <<1, 1, 1, 1>>,
           sequence_ids |-> <<None, Some(0), Some(1), Some(1)>>,
           token_to_chars |-> <<None, Some(<<0, 1>>), Some(<<0, 1>>), Some(<<1, 2>>)>>],
          [input_ids |-> <<1, 0, 2, 3>>,
           attention_mask |-> <<1, 1, 1, 1>>,
           sequence_ids |-> <<None, Some(0), Some(1), Some(1)>>,
           token_to_chars |-> <<None, Some(<<0, 1>>), Some(<<1, 2>>), Some(<<2, 3>>)>>] >>

\* The scoring model, an opaque function of one window's token ids: the start
\* logit of a token is the low bit of its id and the end logit the high bit.
ModelForward(input_ids) ==
  [start_logits |-> Tensor([p \in 1..Len(input_ids) |-> Fin(input_ids[p] % 2)]),
   end_logits |-> Tensor([p \in 1..Len(input_ids) |-> Fin(input_ids[p] \div 2)])]

\* ------------------------------------------------------------ _flatten
RECURSIVE Concat(_)
Concat(ss) == IF Len(ss) = 0 THEN <<>> ELSE Concat(Front(ss)) \o ss[Len(ss)]

\* zip(documents, queries) stops at the shorter of the two.
ZipLen(queries, documents) ==
  IF Len(queries) < Len(documents) THEN Len(queries) ELSE Len(documents)

FlattenQueries(queries, documents) ==
  Concat([q \in 1..ZipLen(queries, documents) |->
            [j \in 1..Len(documents[q]) |-> queries[q]]])

FlattenDocuments(documents) == Concat(documents)

FlattenQueryIds(documents) ==
  Concat([q \in 1..Len(documents) |-> [j \in 1..Len(documents[q]) |-> q - 1]])

\* ------------------------------------------------------------ _preprocess
\* overflow_to_sample_mapping: the index of the (query, document) pair of every window.
OverflowToSampleMapping(flattened_documents) ==
  Concat([d \in 1..Len(flattened_documents) |->
            [j \in 1..Len(Encode(flattened_documents[d])) |-> d - 1]])

Encodings(flattened_documents) ==
  Concat([d \in 1..Len(flattened_documents) |-> Encode(flattened_documents[d])])

\* Line 98: a role of None becomes -1.
SequenceIds(encoding) ==
  Tensor([p \in 1..Len(encoding.sequence_ids) |->
     IF encoding.sequence_ids[p] = None THEN 0 - 1 ELSE encoding.sequence_ids[p][1]])

\* ------------------------------------------------------------ _postprocess
\* Lines 165-167: the positions that may start or end an answer.
TokenMask(sequence_ids, attention_mask) ==
  Tensor([p \in 1..Len(sequence_ids) |->
            (sequence_ids[p] = 1 \/ p = 1) /\ attention_mask[p] = 1])

\* Lines 168-169: torch.where(mask, scores, -inf).
WhereMask(mask, scores) ==
  Tensor([p \in 1..Len(scores) |-> IF mask[p] THEN scores[p] ELSE NegInf])

\* Lines 174-176: end is not before start, and cell [0, 0] is switched off.
TriuMask(start, end) == end >= start /\ ~(start = 0 /\ end = 0)

\* Lines 170-177: the flattened grid of one window, cell (start, end) at
\* start * seq_length + end.
MaskedLogits(start_logits, end_logits, sequence_ids, attention_mask) ==
  LET seq_length == Len(start_logits)
      mask == TokenMask(sequence_ids, attention_mask)
      start == WhereMask(mask, start_logits)
      end == WhereMask(mask, end_logits)
  IN Tensor([f \in 1..(seq_length * seq_length) |->
        LET s == (f - 1) \div seq_length
            e == (f - 1) % seq_length
        IN IF TriuMask(s, e) THEN XAdd(start[s + 1], end[e + 1]) ELSE NegInf])

\* torch.topk orders NaN above every number.
TopkGt(a, b) == (IsNaN(a) /\ ~IsNaN(b)) \/ XLt(b, a)

\* Cell i is taken before cell j.  Among equal values torch.topk leaves the order
\* open: tie = "first" takes the lower index first, tie = "last" the higher.
TopkBefore(values, i, j, tie) ==
  \/ TopkGt(values[i], values[j])
  \/ /\ ~TopkGt(values[j], values[i])
     /\ IF tie = "first" THEN i < j ELSE i > j

RECURSIVE TopkFrom(_, _, _, _)
\* The k cells taken first among the cells in left, in the order they are taken.
TopkFrom(values, k, tie, left) ==
  IF k = 0 THEN <<>>
  ELSE LET i == CHOOSE c \in left : \A o \in left \ {c} : TopkBefore(values, c, o, tie)
       IN <<i - 1>> \o TopkFrom(values, k - 1, tie, left \ {i})

\* torch.topk(values, k).indices, 0-based; k is at most Len(values).
Topk(values, k, tie) == TopkFrom(values, k, tie, 1..Len(values))

\* Lines 188-195: token index to character offset; pick is 1 for the start of
\* the token's span and 2 for its end.
CharOf(encoding, token, pick) ==
  IF token = 0 THEN None ELSE Some(encoding.token_to_chars[token + 1][1][pick])

\* token_to_chars returns None for a special token, and subscripting it raises.
CharRaises(encoding, token) == token # 0 /\ encoding.token_to_chars[token + 1] = None

\* _postprocess.  err is "" or the exception that ends the call; indices are the
\* flattened cells torch.topk selected, from which the candidates are derived.
Postprocess(start_logits, end_logits, sequence_ids, attention_mask, answers_per_seq, encodings, query_ids, tie, win) ==
  LET W == Len(encodings)
      seq_length == Len(start_logits[1])
      masked_logits == Tensor([w \in 1..W |->
         MaskedLogits(start_logits[w], end_logits[w], sequence_ids[w], attention_mask[w])])
      probabilities == SoftmaxAcrossDocuments(masked_logits, query_ids, win)
  IN IF answers_per_seq > seq_length * seq_length \/ answers_per_seq < 0
     THEN [err |-> "RuntimeError: topk", indices |-> <<>>, start |-> <<>>, end |-> <<>>,
           probabilities |-> <<>>]
     ELSE LET indices == Tensor([w \in 1..W |-> Topk(probabilities[w], answers_per_seq, tie)])
              raised == \E w \in 1..W : \E c \in 1..answers_per_seq :
                 \/ CharRaises(encodings[w], indices[w][c] \div seq_length)
                 \/ CharRaises(encodings[w], indices[w][c] % seq_length)
          IN IF raised
             THEN [err |-> "TypeError: token_to_chars", indices |-> indices, start |-> <<>>,
                   end |-> <<>>, probabilities |-> <<>>]
             ELSE [err |-> "", indices |-> indices,
                   start |-> Tensor([w \in 1..W |-> Tensor([c \in 1..answers_per_seq |->
                      CharOf(encodings[w], indices[w][c] \div seq_length, 1)])]),
                   end |-> Tensor([w \in 1..W |-> Tensor([c \in 1..answers_per_seq |->
                      CharOf(encodings[w], indices[w][c] % seq_length, 2)])]),
                   probabilities |-> Tensor([w \in 1..W |-> Tensor([c \in 1..answers_per_seq |->
                      probabilities[w][indices[w][c] + 1]])])]

\* ------------------------------------------------------------ _unflatten
\* Python content[start:end] for start, end >= 0.
Slice(content, start, end) ==
  SubSeq(content, start + 1, IF end < Len(content) THEN end ELSE Len(content))

\* Lines 213-221: one tuple per candidate, window by window.
FlatAnswersWithoutQueries(start, end, probabilities, flattened_documents, document_ids) ==
  Concat([w \in 1..Len(document_ids) |->
    [c \in 1..Len(start[w]) |->
       LET doc == flattened_documents[document_ids[w] + 1]
       IN IF start[w][c] # None /\ end[w][c] # None
          THEN [document |-> doc,
                data |-> Some(Slice(doc, start[w][c][1], end[w][c][1])),
                probability |-> probabilities[w][c],
                start |-> start[w][c], end |-> end[w][c]]
          ELSE [document |-> doc, data |-> None, probability |-> probabilities[w][c],
                start |-> None, end |-> None]]])

\* Lines 229-237.
ExtractedAnswer(t, question) ==
  [data |-> t.data, question |-> question, document |-> t.document,
   probability |-> t.probability, start |-> t.start, end |-> t.end]

RECURSIVE CollectAnswers(_, _, _, _, _, _, _)
\* Lines 227-239: the while loop of one query_id, from flat index i.
CollectAnswers(flat, queries, query_ids, answers_per_seq, query_id, i, current_answers) ==
  IF i < Len(flat) /\ query_ids[(i \div answers_per_seq) + 1] = query_id
  THEN CollectAnswers(flat, queries, query_ids, answers_per_seq, query_id, i + 1,
         Append(current_answers, ExtractedAnswer(flat[i + 1], queries[query_id + 1])))
  ELSE [i |-> i, current_answers |-> current_answers]

\* Line 247.
ReachesTopP(p_sum, top_p) == XGe(p_sum, top_p)

\* A slice that stops before the candidate that reaches top_p.
KeepBefore(current_answers, i) == Take(current_answers, i)

\* Line 248: the slice kept when the sum reaches top_p at index i.
KeepThrough(current_answers, i) == Take(current_answers, i + 1)

RECURSIVE TopPLoop(_, _, _, _)
\* Lines 244-249: for i, answer in enumerate(current_answers), from index i with
\* the sum so far; i_after is the value the loop leaves in i.
TopPLoop(current_answers, top_p, i, p_sum) ==
  IF i >= Len(current_answers)
  THEN [current_answers |-> current_answers, i_after |-> i - 1]
  ELSE LET p_sum2 == XAdd(p_sum, current_answers[i + 1].probability)
       IN IF ReachesTopP(p_sum2, top_p)
          THEN [current_answers |-> KeepThrough(current_answers, i), i_after |-> i]
          ELSE TopPLoop(current_answers, top_p, i + 1, p_sum2)

\* The candidates left in the order they were collected in.
SortAnswersSkipped(current_answers) == current_answers

\* Line 240.
SortAnswers(current_answers) ==
  LET order == SortedReverse(Tensor([j \in 1..Len(current_answers) |->
                                       current_answers[j].probability]))
  IN Tensor([j \in 1..Len(order) |-> current_answers[order[j]]])

\* A truncation that also adds an explicit no-answer candidate, of probability 0,
\* behind the answers kept.
TruncateTopKWithNoAnswer(current_answers, top_k) ==
  LET kept == IF top_k # None THEN Take(current_answers, top_k[1]) ELSE current_answers
  IN IF Len(kept) = 0 THEN kept
     ELSE Append(kept, [data |-> None, question |-> kept[1].question, document |-> None,
                        probability |-> Fin(0), start |-> None, end |-> None])

\* Lines 241-242.
TruncateTopK(current_answers, top_k) ==
  IF top_k # None THEN Take(current_answers, top_k[1]) ELSE current_answers

RECURSIVE UnflattenLoop(_, _, _, _, _, _, _, _, _)
\* Lines 225-250: for query_id in range(query_ids[-1] + 1).  i is shared by the
\* while loop and the top_p loop.  collected and ranked keep, per query, the
\* list before sorting and the list after line 242.
UnflattenLoop(flat, queries, query_ids, answers_per_seq, top_k, top_p, query_id, i, acc) ==
  IF query_id > query_ids[Len(query_ids)] THEN acc
  ELSE LET c == CollectAnswers(flat, queries, query_ids, answers_per_seq, query_id, i, <<>>)
           ranked == TruncateTopK(SortAnswers(c.current_answers), top_k)
           cut == IF top_p # None /\ Len(ranked) > 0
                  THEN TopPLoop(ranked, top_p[1], 0, Fin(0))
                  ELSE [current_answers |-> ranked, i_after |-> c.i]
       IN UnflattenLoop(flat, queries, query_ids, answers_per_seq, top_k, top_p,
            query_id + 1, cut.i_after,
            [nested_answers |-> Append(acc.nested_answers, cut.current_answers),
             collected |-> Append(acc.collected, c.current_answers),
             ranked |-> Append(acc.ranked, ranked)])

\* _unflatten.
Unflatten(start, end, probabilities, flattened_documents, queries, answers_per_seq, top_k, top_p, query_ids, document_ids) ==
  UnflattenLoop(
    FlatAnswersWithoutQueries(start, end, probabilities, flattened_documents, document_ids),
    queries, query_ids, answers_per_seq, top_k, top_p, 0, 0,
    [nested_answers |-> <<>>, collected |-> <<>>, ranked |-> <<>>])

\* ------------------------------------------------------------ bounds and inputs
MaxQueries == 2

\* The documents of one call, over all its queries.
MaxDocs == 2

\* warm_up is not called again once the model has been loaded this many times.
MaxLoads == 2

\* Constructor arguments: top_k, top_p, max_batch_size, answers_per_seq.
CtorConfigs ==
  { [top_k |-> None, top_p |-> None, max_batch_size |-> None, answers_per_seq |-> None],
    [top_k |-> Some(3), top_p |-> Some(Frac(1, 2)), max_batch_size |-> None,
     answers_per_seq |-> Some(2)] }

TopKArgs == {None, Some(2)}

TopPArgs == {None, Some(Frac(1, 2))}

MaxBatchSizeArgs == {None, Some(1), Some(2)}

AnswersPerSeqArgs == {None, Some(3)}

\* The text of the n-th query.
QueryText(n) == <<"query", n>>

QueryBatches == {[q \in 1..n |-> QueryText(q)] : n \in 0..MaxQueries}

DocLists == UNION {[1..k -> DocLib] : k \in 0..MaxDocs}

DocBatches ==
  {b \in UNION {[1..m -> DocLists] : m \in 0..MaxQueries} : Len(Concat(b)) <= MaxDocs}

DefaultTopK == 10

DefaultAnswersPerSeq == 20

\* ------------------------------------------------------------ state
VARIABLES
  self,             \* the constructor's top_k, top_p, max_batch_size, answers_per_seq
  model_,           \* self.model_: "None" or "loaded"
  tokenizer,        \* whether self.tokenizer has been set
  loads,            \* how often the scoring model has been loaded
  pc,               \* "idle", "scoring" (in the sub-batch loop), "done", "error"
  err,              \* the exception that ended the call, or ""
  args,             \* the arguments of the call in progress
  loc,              \* run's local variables
  tokenizer_called, \* whether the call has invoked the tokenizer
  model_calls,      \* the sub-batches (window indices) the call has passed to the model
  post,             \* what _postprocess returned
  out               \* what _unflatten returned: nested_answers, with the lists behind them

vars == <<self, model_, tokenizer, loads, pc, err, args, loc, tokenizer_called,
          model_calls, post, out>>

NoArgs == [queries |-> <<>>, documents |-> <<>>, top_k |-> None, top_p |-> None,
           max_batch_size |-> None, answers_per_seq |-> None]

NoLoc == [top_k |-> None, top_p |-> None, answers_per_seq |-> 0,
          flattened_documents |-> <<>>, query_ids |-> <<>>, document_ids |-> <<>>,
          encodings |-> <<>>, num_batches |-> 0, batch_size |-> 0, i |-> 0,
          start_logits_list |-> <<>>, end_logits_list |-> <<>>]

NoPost == [err |-> "", indices |-> <<>>, start |-> <<>>, end |-> <<>>,
           probabilities |-> <<>>]

NoOut == [nested_answers |-> <<>>, collected |-> <<>>, ranked |-> <<>>]

Init ==
  /\ self \in CtorConfigs
  /\ model_ = "None"
  /\ tokenizer = FALSE
  /\ loads = 0
  /\ pc = "idle"
  /\ err = ""
  /\ args = NoArgs
  /\ loc = NoLoc
  /\ tokenizer_called = FALSE
  /\ model_calls = <<>>
  /\ post = NoPost
  /\ out = NoOut

\* ------------------------------------------------------------ warm_up
\* A warm_up that loads whatever has been loaded before.
NeedsLoadAlways(m) == TRUE

\* Line 60.
NeedsLoad(m) == m = "None"

\* warm_up.  loaded says how far the two from_pretrained calls get: both, the
\* model only (the tokenizer's raises), or neither (the model's raises).
WarmUp ==
  /\ pc = "idle"
  /\ loads < MaxLoads
  /\ \E loaded \in {"both", "model", "neither"} :
       IF NeedsLoad(model_)
       THEN /\ model_' = IF loaded = "neither" THEN model_ ELSE "loaded"
            /\ loads' = IF loaded = "neither" THEN loads ELSE loads + 1
            /\ tokenizer' = IF loaded = "both" THEN TRUE ELSE tokenizer
       ELSE UNCHANGED <<model_, loads, tokenizer>>
  /\ UNCHANGED <<self, pc, err, args, loc, tokenizer_called, model_calls, post, out>>

\* ------------------------------------------------------------ run
\* Python truthiness of an Optional[float].
TruthyFloat(o) == o # <<>> /\ ~(o[1].k = "fin" /\ o[1].n = 0)

\* Lines 266-269.
ResolveTopP(top_p) == IF TruthyFloat(top_p) THEN top_p ELSE self.top_p

ResolveTopK(top_k, top_p) ==
  IF Or(top_k, self.top_k) = None /\ ResolveTopP(top_p) = None
  THEN Some(DefaultTopK)
  ELSE Or(top_k, self.top_k)

\* Line 272.
ResolveMaxBatchSize(max_batch_size) == Or(max_batch_size, self.max_batch_size)

\* Line 273.
ResolveAnswersPerSeq(answers_per_seq, top_k) ==
  Or(Or(Or(answers_per_seq, self.answers_per_seq), top_k), Some(DefaultAnswersPerSeq))[1]

\* The tokenizer takes a non-empty batch of texts with as many text pairs.
TokenizerAccepts(flattened_queries, flattened_documents) ==
  Len(flattened_queries) = Len(flattened_documents) /\ Len(flattened_queries) > 0

\* A batch count that rounds down.
NumBatchesFloor(n_windows, max_batch_size) ==
  IF Truthy(max_batch_size) THEN n_windows \div max_batch_size[1] ELSE 1

\* Lines 280-281.
NumBatches(n_windows, max_batch_size) ==
  IF Truthy(max_batch_size)
  THEN (n_windows + max_batch_size[1] - 1) \div max_batch_size[1]
  ELSE 1

BatchSize(n_windows, max_batch_size) ==
  IF Truthy(max_batch_size) THEN max_batch_size[1] ELSE n_windows

\* Lines 287-290: the 0-based windows of input_ids[start_index:end_index].
BatchSlice(n_windows, i, batch_size) ==
  LET start_index == i * batch_size
      end_index == start_index + batch_size
      stop == IF end_index < n_windows THEN end_index ELSE n_windows
  IN Tensor([j \in 1..(IF stop > start_index THEN stop - start_index ELSE 0) |->
               start_index + j - 1])

\* Lines 266-281: the arguments are resolved, flattened and tokenized.
RunBegin ==
  /\ pc = "idle"
  /\ \E queries \in QueryBatches, documents \in DocBatches, top_k \in TopKArgs,
        top_p \in TopPArgs, max_batch_size \in MaxBatchSizeArgs,
        answers_per_seq \in AnswersPerSeqArgs :
       LET k == ResolveTopK(top_k, top_p)
           flattened_queries == FlattenQueries(queries, documents)
           flattened_documents == FlattenDocuments(documents)
           mapping == OverflowToSampleMapping(flattened_documents)
           encodings == Encodings(flattened_documents)
           mbs == ResolveMaxBatchSize(max_batch_size)
       IN /\ args' = [queries |-> queries, documents |-> documents, top_k |-> top_k,
                      top_p |-> top_p, max_batch_size |-> max_batch_size,
                      answers_per_seq |-> answers_per_seq]
          /\ IF ~tokenizer
             THEN /\ pc' = "error"
                  /\ err' = "AttributeError: tokenizer"
                  /\ UNCHANGED <<loc, tokenizer_called>>
             ELSE IF ~TokenizerAccepts(flattened_queries, flattened_documents)
             THEN /\ pc' = "error"
                  /\ err' = "Exception: tokenizer"
                  /\ tokenizer_called' = TRUE
                  /\ UNCHANGED loc
             ELSE /\ pc' = "scoring"
                  /\ tokenizer_called' = TRUE
                  /\ loc' = [top_k |-> k,
                             top_p |-> ResolveTopP(top_p),
                             answers_per_seq |-> ResolveAnswersPerSeq(answers_per_seq, k),
                             flattened_documents |-> flattened_documents,
                             query_ids |-> IndexGet(FlattenQueryIds(documents), mapping),
                             document_ids |-> mapping,
                             encodings |-> encodings,
                             num_batches |-> NumBatches(Len(encodings), mbs),
                             batch_size |-> BatchSize(Len(encodings), mbs),
                             i |-> 0,
                             start_logits_list |-> <<>>,
                             end_logits_list |-> <<>>]
                  /\ UNCHANGED err
  /\ UNCHANGED <<self, model_, tokenizer, loads, model_calls, post, out>>

\* Lines 286-299: one pass of the sub-batch loop.
RunScoreBatch ==
  /\ pc = "scoring"
  /\ loc.i < loc.num_batches
  /\ LET cur == BatchSlice(Len(loc.encodings), loc.i, loc.batch_size)
         output == Tensor([j \in 1..Len(cur) |->
                     ModelForward(loc.encodings[cur[j] + 1].input_ids)])
     IN /\ model_calls' = Append(model_calls, cur)
        /\ loc' = [loc EXCEPT
             !.i = loc.i + 1,
             !.start_logits_list =
                Append(@, Tensor([j \in 1..Len(cur) |-> output[j].start_logits])),
             !.end_logits_list =
                Append(@, Tensor([j \in 1..Len(cur) |-> output[j].end_logits]))]
        /\ UNCHANGED <<pc, err>>
  /\ UNCHANGED <<self, model_, tokenizer, loads, args, tokenizer_called, post, out>>

\* Whether last_docs repeats an index, so that the outcome of an indexed write
\* is open.
RepeatsIndex(idx) == \E a, b \in 1..Len(idx) : a < b /\ idx[a] = idx[b]

\* Lines 301-321: the scores are concatenated, postprocessed and unflattened.
RunFinish ==
  /\ pc = "scoring"
  /\ loc.i = loc.num_batches
  /\ \E tie \in {"first", "last"} :
     \E win \in (IF RepeatsIndex(DocBoundaries(loc.query_ids).last_docs)
                 THEN {"first", "last"} ELSE {"last"}) :
       LET start_logits == Concat(loc.start_logits_list)
           end_logits == Concat(loc.end_logits_list)
           W == Len(loc.encodings)
       IN IF Len(start_logits) # W
          THEN /\ pc' = "error"
               /\ err' = "RuntimeError: shape"
               /\ UNCHANGED <<post, out>>
          ELSE \E r \in {Postprocess(start_logits, end_logits,
                          Tensor([w \in 1..W |-> SequenceIds(loc.encodings[w])]),
                          Tensor([w \in 1..W |-> loc.encodings[w].attention_mask]),
                          loc.answers_per_seq, loc.encodings, loc.query_ids, tie, win)} :
                  /\ post' = r
                  /\ IF r.err # ""
                     THEN /\ pc' = "error"
                          /\ err' = r.err
                          /\ UNCHANGED out
                     ELSE /\ pc' = "done"
                          /\ out' = Unflatten(r.start, r.end, r.probabilities,
                                      loc.flattened_documents, args.queries,
                                      loc.answers_per_seq, loc.top_k, loc.top_p,
                                      loc.query_ids, loc.document_ids)
                          /\ UNCHANGED err
  /\ UNCHANGED <<self, model_, tokenizer, loads, args, loc, tokenizer_called, model_calls>>

\* The call has returned or raised; the reader is ready for the next call.
Return ==
  /\ pc \in {"done", "error"}
  /\ pc' = "idle"
  /\ err' = ""
  /\ args' = NoArgs
  /\ loc' = NoLoc
  /\ tokenizer_called' = FALSE
  /\ model_calls' = <<>>
  /\ post' = NoPost
  /\ out' = NoOut
  /\ UNCHANGED <<self, model_, tokenizer, loads>>

Next == WarmUp \/ RunBegin \/ RunScoreBatch \/ RunFinish \/ Return

Spec == Init /\ [][Next]_vars

\* ------------------------------------------------------------ properties
\* The windows of the call in progress, and the scores one model call over all
\* of them gives.
Windows == Len(loc.encodings)

AllStartLogits == Tensor([w \in 1..Windows |-> ModelForward(loc.encodings[w].input_ids).start_logits])

AllEndLogits == Tensor([w \in 1..Windows |-> ModelForward(loc.encodings[w].input_ids).end_logits])

\* The outcomes open to the indexed writes of the call in progress.
WinChoices ==
  IF RepeatsIndex(DocBoundaries(loc.query_ids).last_docs) THEN {"first", "last"} ELSE {"last"}

\* What _postprocess gives for the scores of one model call over all windows.
PostOfOneBatch(tie, win) ==
  Postprocess(AllStartLogits, AllEndLogits,
              Tensor([w \in 1..Windows |-> SequenceIds(loc.encodings[w])]),
              Tensor([w \in 1..Windows |-> loc.encodings[w].attention_mask]),
              loc.answers_per_seq, loc.encodings, loc.query_ids, tie, win)

\* What _unflatten gives for the candidates in post.
AnswersOf(r) ==
  Unflatten(r.start, r.end, r.probabilities, loc.flattened_documents, args.queries,
            loc.answers_per_seq, loc.top_k, loc.top_p, loc.query_ids, loc.document_ids)

LoopDone == pc \in {"scoring", "done", "error"} /\ loc # NoLoc /\ loc.i = loc.num_batches

\* The shapes of queries and documents that the input-shape rule rejects.
BadShape ==
  \/ Len(args.queries) # Len(args.documents)
  \/ args.queries = <<>>
  \/ args.documents = <<>>
  \/ \E q \in 1..Len(args.documents) : args.documents[q] = <<>>

\* The query has windows, and none of them has an eligible document token.
ZeroEligible(query_id) ==
  /\ \E w \in 1..Windows : loc.query_ids[w] = query_id
  /\ \A w \in 1..Windows : loc.query_ids[w] = query_id =>
       \A p \in 2..Len(loc.encodings[w].input_ids) :
         ~(SequenceIds(loc.encodings[w])[p] = 1 /\ loc.encodings[w].attention_mask[p] = 1)

\* Every query of the call has an eligible document token in some window.
AllQueriesEligible == \A w \in 1..Windows : ~ZeroEligible(loc.query_ids[w])

\* C7: once the sub-batch loop has ended, the sub-batches passed to the model are
\* consecutive, each of at most max_batch_size windows, together every window
\* exactly once in window order, and the concatenated start and end scores are
\* those of one model call over all windows (the max_batch_size = None result);
\* the answers returned are the answers computed from those scores.
C7_BatchedScoresInOrder ==
  LoopDone =>
    /\ Concat(model_calls) = Tensor([w \in 1..Windows |-> w - 1])
    /\ \A b \in 1..Len(model_calls) :
          /\ Len(model_calls[b]) >= 1
          /\ Truthy(ResolveMaxBatchSize(args.max_batch_size)) =>
                Len(model_calls[b]) <= ResolveMaxBatchSize(args.max_batch_size)[1]
    /\ Concat(loc.start_logits_list) = AllStartLogits
    /\ Concat(loc.end_logits_list) = AllEndLogits
    /\ pc = "done" =>
          \E tie \in {"first", "last"}, win \in WinChoices :
            /\ post = PostOfOneBatch(tie, win)
            /\ out = AnswersOf(post)

\* Three windows have been scored in sub-batches of two and one.
C7_Witness ==
  /\ LoopDone
  /\ ~BadShape
  /\ Windows = 3
  /\ Len(model_calls) = 2
  /\ Len(model_calls[1]) = 2
  /\ Len(model_calls[2]) = 1
  /\ pc = "done"
  /\ out.nested_answers # <<>>

\* C8: the model is invoked only on a reader whose warm_up has completed; a run
\* on a reader that is not warmed up ends in an error, with neither the
\* tokenizer nor the model invoked and no answers returned; the model is loaded
\* at most once however often warm_up is called.
C8_WarmUpBeforeRun ==
  /\ model_calls # <<>> => tokenizer /\ model_ = "loaded" /\ loads >= 1
  /\ pc \in {"scoring", "done"} => tokenizer /\ model_ = "loaded"
  /\ (pc # "idle" /\ ~tokenizer) =>
        /\ pc = "error"
        /\ err = "AttributeError: tokenizer"
        /\ ~tokenizer_called
        /\ model_calls = <<>>
        /\ out = NoOut
  /\ loads <= 1

\* A run on a reader that was never warmed up has raised.
C8_Witness ==
  /\ pc = "error"
  /\ err = "AttributeError: tokenizer"
  /\ loads = 0
  /\ args.queries # <<>>

\* The sum of the first k probabilities of a list of answers.
CumProb(answers, k) == SumSeq(Tensor([j \in 1..k |-> answers[j].probability]))

IsPrefix(a, b) == Len(a) <= Len(b) /\ a = Take(b, Len(a))

\* C4: with top_p set, the list returned for a query is the shortest prefix of the
\* query's ranked and top_k-truncated list whose cumulative probability is at
\* least top_p, and the whole ranked list where no prefix reaches top_p.
C4_TopPShortestPrefix ==
  (pc = "done" /\ loc.top_p # None) =>
    \A q \in 1..Len(out.nested_answers) :
      LET ranked == out.ranked[q]
          kept == out.nested_answers[q]
          reach == {k \in 1..Len(ranked) : XGe(CumProb(ranked, k), loc.top_p[1])}
      IN /\ IsPrefix(kept, ranked)
         /\ IF reach = {} THEN kept = ranked
            ELSE /\ Len(kept) \in reach
                 /\ \A k \in reach : Len(kept) <= k

\* The top_p cut has dropped candidates behind a second candidate that reached top_p.
C4_Witness ==
  /\ pc = "done"
  /\ ~BadShape
  /\ loc.top_p # None
  /\ \E q \in 1..Len(out.nested_answers) :
       /\ Len(out.nested_answers[q]) >= 2
       /\ Len(out.nested_answers[q]) < Len(out.ranked[q])

\* The position of candidate j of a list among the list sorted by probability
\* descending, ties in input order.
RankOf(answers, j) ==
  1 + Cardinality({i \in 1..Len(answers) :
                     XLt(answers[j].probability, answers[i].probability)})
    + Cardinality({i \in 1..(j - 1) :
                     /\ ~XLt(answers[j].probability, answers[i].probability)
                     /\ ~XLt(answers[i].probability, answers[j].probability)})

\* The top_k in force: the one given to run, else the constructor's, else 10
\* where no top_p is given either, else none.
TopKInForce ==
  IF Truthy(args.top_k) THEN args.top_k
  ELSE IF Truthy(self.top_k) THEN self.top_k
  ELSE IF args.top_p = None /\ self.top_p = None THEN Some(10)
  ELSE None

\* C5: for every query the ranked list is the query's candidates sorted by
\* probability descending, ties in candidate input order, cut to the first top_k
\* of them for the top_k in force (for a top_k of at least 1); the returned
\* list is a prefix of it, and the whole of it where no top_p is in force.
C5_SortedTruncated ==
  pc = "done" =>
    \A q \in 1..Len(out.nested_answers) :
      LET cand == out.collected[q]
          ranked == out.ranked[q]
          n == IF TopKInForce # None /\ TopKInForce[1] < Len(cand)
               THEN TopKInForce[1] ELSE Len(cand)
      IN /\ Len(ranked) = n
         /\ \A j \in 1..Len(cand) : RankOf(cand, j) <= n => ranked[RankOf(cand, j)] = cand[j]
         /\ IsPrefix(out.nested_answers[q], ranked)
         /\ loc.top_p = None => out.nested_answers[q] = ranked

\* Sorting has moved a candidate forward past others, candidates of equal
\* probability are among those kept, and top_k has cut the list.
C5_Witness ==
  /\ pc = "done"
  /\ ~BadShape
  /\ \E q \in 1..Len(out.nested_answers) :
       /\ Len(out.ranked[q]) < Len(out.collected[q])
       /\ out.ranked[q] # Take(out.collected[q], Len(out.ranked[q]))
       /\ \E j \in 1..(Len(out.ranked[q]) - 1) :
            XEq(out.ranked[q][j].probability, out.ranked[q][j + 1].probability)
       /\ \E j \in 1..(Len(out.ranked[q]) - 1) :
            XLt(out.ranked[q][j + 1].probability, out.ranked[q][j].probability)

\* The masked grids of the call in progress.
AllMaskedLogits ==
  Tensor([w \in 1..Windows |->
            MaskedLogits(AllStartLogits[w], AllEndLogits[w],
                         SequenceIds(loc.encodings[w]), loc.encodings[w].attention_mask)])

\* The sum of the exponentiated cells of the windows that share window w's query_id.
SumOverQuery(exp_logits, w) ==
  SumSeq(Tensor([v \in 1..Windows |->
                   IF loc.query_ids[v] = loc.query_ids[w]
                   THEN SumSeq(exp_logits[v]) ELSE Fin(0)]))

\* C1: every window is divided by the sum of the exponentiated cells of exactly
\* the windows of its query, so the probabilities of one query's cells sum to at
\* most 1.
C1_NormalisedPerQuery ==
  (pc = "done" /\ ~BadShape /\ AllQueriesEligible) =>
    \A win \in WinChoices :
      LET exp_logits == ExpLogits(AllMaskedLogits, loc.query_ids, win)
          exp_sum_per_query == ExpSumPerQuery(exp_logits, loc.query_ids, win)
          probabilities == SoftmaxAcrossDocuments(AllMaskedLogits, loc.query_ids, win)
      IN \A w \in 1..Windows :
           /\ XEq(exp_sum_per_query[w], SumOverQuery(exp_logits, w))
           /\ XGe(Fin(1), SumOverQuery(probabilities, w))

\* The candidates of every window of a query, window by window.
CandidatesOfQuery(query_id) ==
  LET flat == FlatAnswersWithoutQueries(post.start, post.end, post.probabilities,
                                        loc.flattened_documents, loc.document_ids)
  IN Concat([w \in 1..Windows |->
       IF loc.query_ids[w] = query_id
       THEN [c \in 1..loc.answers_per_seq |->
               ExtractedAnswer(flat[(w - 1) * loc.answers_per_seq + c],
                               args.queries[query_id + 1])]
       ELSE <<>>])

\* C2: the list collected for a query_id holds exactly the answers_per_seq
\* candidates of every window of that query_id, for every query of the batch
\* and whatever top_k and top_p are.
C2_CollectedPerQuery ==
  (pc = "done" /\ ~BadShape) =>
    \A q \in 1..Len(out.collected) : out.collected[q] = CandidatesOfQuery(q - 1)

\* C3: run returns one list per query, the list at index q holding only answers
\* to queries[q].
C3_OneListPerQuery ==
  pc = "done" =>
    /\ Len(out.nested_answers) = Len(args.queries)
    /\ \A q \in 1..Len(out.nested_answers) :
         \A a \in 1..Len(out.nested_answers[q]) :
           out.nested_answers[q][a].question = args.queries[q]

\* top_k may not exceed the number of cells of a grid.
TopkFits ==
  loc.encodings # <<>> =>
    loc.answers_per_seq <= Len(loc.encodings[1].input_ids) * Len(loc.encodings[1].input_ids)

\* C6: _postprocess returns answers_per_seq candidates for every window, each
\* with end >= start in token indices or a no-answer candidate (start or end at
\* token 0, reported as None, None), also where a window has fewer eligible
\* cells than answers_per_seq.
C6_CandidatesWellFormed ==
  (LoopDone /\ pc \in {"done", "error"} /\ TopkFits /\ ~BadShape /\ AllQueriesEligible) =>
    /\ post.err = ""
    /\ \A w \in 1..Windows :
         /\ Len(post.start[w]) = loc.answers_per_seq
         /\ Len(post.end[w]) = loc.answers_per_seq
         /\ \A c \in 1..loc.answers_per_seq :
              LET seq_length == Len(loc.encodings[w].input_ids)
                  start == post.indices[w][c] \div seq_length
                  end == post.indices[w][c] % seq_length
              IN end >= start \/ start = 0 \/ end = 0

\* C9: a call whose queries and documents differ in length, or with an empty
\* query or document batch, ends in an error before the tokenizer or the model
\* is invoked.
C9_BadShapeRejected ==
  (pc # "idle" /\ BadShape) =>
    /\ pc = "error"
    /\ ~tokenizer_called
    /\ model_calls = <<>>

\* C10: a call with a query without eligible document tokens returns, and that
\* query's list holds only no-answer candidates, with probabilities that are
\* numbers.
C10_NoAnswerOnly ==
  \A query_id \in 0..(MaxQueries - 1) :
    (LoopDone /\ pc \in {"done", "error"} /\ TopkFits /\ ~BadShape
       /\ ZeroEligible(query_id)) =>
      /\ pc = "done"
      /\ query_id + 1 <= Len(out.nested_answers)
      /\ \A a \in 1..Len(out.nested_answers[query_id + 1]) :
           LET answer == out.nested_answers[query_id + 1][a]
           IN /\ answer.start = None
              /\ answer.end = None
              /\ ~IsNaN(answer.probability)

\* The sum of the cells of a window's grid that masking left finite.
SumUnmasked(grid, w) ==
  SumSeq(Tensor([f \in 1..Len(grid) |->
                   IF AllMaskedLogits[w][f] = NegInf THEN Fin(0) ELSE grid[f]]))

\* C11: in a batch of one query with an unmasked cell, the normalising constant
\* of every window is the total of the exponentiated cells of all windows, and
\* the probabilities of the unmasked cells of all windows sum to exactly 1.
C11_SingleQuerySumsToOne ==
  (LoopDone /\ pc \in {"done", "error"} /\ Len(args.queries) = 1 /\ ~BadShape
     /\ AllQueriesEligible) =>
    \A win \in WinChoices :
      LET exp_logits == ExpLogits(AllMaskedLogits, loc.query_ids, win)
          exp_sum_per_query == ExpSumPerQuery(exp_logits, loc.query_ids, win)
          probabilities == SoftmaxAcrossDocuments(AllMaskedLogits, loc.query_ids, win)
          total == SumSeq(Tensor([v \in 1..Windows |-> SumSeq(exp_logits[v])]))
      IN /\ \A w \in 1..Windows : XEq(exp_sum_per_query[w], total)
         /\ XEq(SumSeq(Tensor([w \in 1..Windows |-> SumUnmasked(probabilities[w], w)])),
                Fin(1))

\* A single-query call over the windows of two documents has returned.
C11_Witness ==
  /\ pc = "done"
  /\ Len(args.queries) = 1
  /\ ~BadShape
  /\ AllQueriesEligible
  /\ Len(args.documents[1]) = 2
  /\ Windows >= 3

\* Window w is the last window of its query.
IsLastWindow(w) == w = Windows \/ loc.query_ids[w + 1] # loc.query_ids[w]

\* The sum of the incoming [0, 0] scores of the windows of window w's query.
NoAnswerSumOfQuery(logits, w) ==
  SumSeq(Tensor([v \in 1..Windows |->
                   IF loc.query_ids[v] = loc.query_ids[w] THEN logits[v][1] ELSE Fin(0)]))

\* C13: after the no-answer step, for every query of the batch the [0, 0] cell of
\* the query's last window holds the sum of the incoming [0, 0] scores of all the
\* query's windows, and the [0, 0] cell of every other window of the query is -inf.
C13_NoAnswerInLastWindow ==
  (LoopDone /\ pc \in {"done", "error"} /\ ~BadShape) =>
    \A win \in WinChoices :
      LET no_answer_logits == NoAnswerLogits(AllMaskedLogits, loc.query_ids, win)
      IN \A w \in 1..Windows :
           no_answer_logits[w] = IF IsLastWindow(w)
                                 THEN NoAnswerSumOfQuery(AllMaskedLogits, w)
                                 ELSE NegInf

\* Position p (from 0) of window w is a document token that is not padding, or
\* is position 0.
Eligible(w, p) ==
  \/ /\ SequenceIds(loc.encodings[w])[p + 1] = 1
     /\ loc.encodings[w].attention_mask[p + 1] = 1
  \/ p = 0

\* C14: after masking, a cell (start, end) keeps its finite start + end score
\* exactly when both positions are eligible and end >= start; every other cell
\* is -inf, and the no-answer cell (0, 0) is never masked.
C14_MaskedGrid ==
  (LoopDone /\ pc \in {"done", "error"} /\ ~BadShape) =>
    \A w \in 1..Windows :
      LET seq_length == Len(AllStartLogits[w])
      IN /\ \A start \in 0..(seq_length - 1) : \A end \in 0..(seq_length - 1) :
              AllMaskedLogits[w][start * seq_length + end + 1] =
                IF Eligible(w, start) /\ Eligible(w, end) /\ end >= start
                THEN XAdd(AllStartLogits[w][start + 1], AllEndLogits[w][end + 1])
                ELSE NegInf
         /\ AllMaskedLogits[w][1].k = "fin"

\* IEEE a * b.
XMul(a, b) ==
  IF a.k = "nan" \/ b.k = "nan" THEN NaN
  ELSE IF a.k = "fin" /\ b.k = "fin" THEN Frac(a.n * b.n, a.d * b.d)
  ELSE IF XSign(a) * XSign(b) = 0 THEN NaN
  ELSE IF XSign(a) * XSign(b) > 0 THEN PosInf
  ELSE NegInf

RECURSIVE NoAnswerProbability(_)
\* The product of (1 - probability) over a list of answers.
NoAnswerProbability(answers) ==
  IF Len(answers) = 0 THEN Fin(1)
  ELSE XMul(NoAnswerProbability(Front(answers)),
            XSub(Fin(1), answers[Len(answers)].probability))

\* An explicit no-answer candidate for a list of answers: no text, no document,
\* no span.
NoAnswerCandidate(answers, question) ==
  [data |-> None, question |-> question, document |-> None,
   probability |-> NoAnswerProbability(answers), start |-> None, end |-> None]

\* A list of answers with its no-answer candidate put behind the first j of them.
WithNoAnswer(answers, question, j) ==
  Take(answers, j) \o <<NoAnswerCandidate(answers, question)>>
    \o SubSeq(answers, j + 1, Len(answers))

\* The candidates the extractor returned for the windows of the call.
FlatOfPost ==
  FlatAnswersWithoutQueries(post.start, post.end, post.probabilities,
                            loc.flattened_documents, loc.document_ids)

\* The number of times answer a occurs in a list of answers.
Occurrences(answers, a) == Cardinality({j \in 1..Len(answers) : answers[j] = a})

Descending(answers) ==
  \A j \in 1..(Len(answers) - 1) : XGe(answers[j].probability, answers[j + 1].probability)

FiniteProbabilities(answers) == \A j \in 1..Len(answers) : answers[j].probability.k = "fin"

====
